---- MODULE Spec2Model ----
(***************************************************************************)
(* The realtime audio ingestion pipeline of the native module:             *)
(*   hardware callback -> ring buffer -> worker thread                     *)
(*   (drain -> resample -> frame -> VAD -> sink), with start()/stop().     *)
(*                                                                         *)
(* Three capture variants are modelled, as the source has them:            *)
(*   "macos"      speaker/macos.rs       (tap, overflow tracking)          *)
(*   "core_audio" speaker/core_audio.rs  (tap, mono/stereo/multi paths)    *)
(*   "mic"        microphone.rs          (cpal input, per-sample try_push) *)
(*                                                                         *)
(* Float samples are fixed-point numerators over Den (x = n / Den).        *)
(***************************************************************************)
EXTENDS Integers, Sequences, FiniteSets, TLC

(* ------------------------------------------------------------------ *)
(* Bounds of the model.  The ring capacity, the drain cap and the      *)
(* chunk size are scaled-down stand-ins for 131072 / 48000, 4800 and   *)
(* 1600: the code depends on them only through length comparisons.     *)
(* ------------------------------------------------------------------ *)
RingCap == 3
\* HeapRb::<f32>::new(buffer_size), scaled
DrainCap == 3
\* `if raw_batch.len() >= 4800 { break; }`, scaled
CHUNK_SAMPLES == 2
\* audio_config::CHUNK_SAMPLES (1600), scaled
MaxOffered == 5
\* total mono samples the hardware offers in a run of Spec
MaxConvOut == 3
\* longest output the platform converter returns from one call
MaxPureLen == 3
\* longest input of a resample call in SpecResample
MaxVadFrames == 11
\* frames fed to the VadGate in a run of SpecVad
MaxProduced == 4
\* samples the converter has returned after which SpecResampleSeq makes no further call
MaxDetached == 1
\* workers left running by a repeated start() in SpecRestart

\* longest batch (in frames) one callback invocation delivers: it can fill the ring
MaxBatchFrames == RingCap
\* total samples accepted into the ring in a run of SpecOverflow
MaxWrittenOverflow == RingCap

(* Program constants *)
SOFT_THRESHOLD == 25
HARD_THRESHOLD == 50
OUTPUT_RATE == 16000
I16_SCALE == 32767
PASSTHROUGH_CAPACITY == 1024
CONVERT_CAPACITY == 2048
CAPACITY_MARGIN == 10
DRAIN_LIMIT == 4800

(* Float samples are numerators over Den: the float 1.0 is Den. *)
Den == 1024

Variants == {"macos", "core_audio", "mic"}
InputRates == {16000, 48000}

(* Between the callback and the framer no code branches on the value of a    *)
(* sample, so the k-th float the device delivers in a run carries Signal(k), *)
(* all distinct and inside [-1.0, 1.0]: a skipped, duplicated or reordered   *)
(* sample is then visible.  How a batch is cut and when it arrives is free.  *)
(* The code that does read values (clamp, cast) is checked over free values  *)
(* in SpecResample.                                                          *)
Signal(k) == 4 * k

\* first value the platform converter returns; later ones count up from it
ConvBase == 100 * 100

\* float samples a resample call may get in SpecResample: in range, clipping, zero
PureValues == {-2 * Den, -(Den \div 4), -1, 0, 1, Den \div 2, 2 * Den}

VARIABLES
    variant,             \* which capture implementation is compiled in / used
    channels,            \* channels_per_frame of the capture format
    device_rate,         \* asbd.sample_rate / config.sample_rate of the device
    actual_rates,        \* the rates device.actual_sample_rate() may report
    mpc,                 \* position of the host (JS) thread in start()/stop()
    start_result,        \* what start() returned: "none", "Ok", "Err"
    stop_signal,         \* Arc<Mutex<bool>>
    capture_thread,      \* Option<JoinHandle>: "None" or "Some"
    stream,              \* "none", "live" (device started / playing), "released"
    ring,                \* HeapRb<f32>: the samples between producer and consumer
    current_sample_rate, \* Arc<AtomicU32> written by proc
    consecutive_drops,   \* Ctx.consecutive_drops
    should_terminate,    \* Ctx.should_terminate
    has_data,            \* WakerState.has_data
    waker_lock,          \* holder of the waker_state mutex: "none" or "callback"
    consumer_lock,       \* holder of the consumer mutex (mic): "none", "worker", "detached"
    cb,                  \* the realtime callback: [pc, data, mono, pos, written]
    wpc,                 \* position of the worker thread
    input_sample_rate,   \* the rate start() read and moved into the worker
    resampler,           \* [converter, input_rate, capacity] once constructed
    raw_batch,           \* Vec<f32> drained in this iteration
    i16_accumulator,     \* Vec<i16> kept between iterations
    pushed_total,        \* history: mono samples offered to the ring
    dropped_total,       \* history: offered samples that did not fit
    drained_total,       \* history: samples popped by the worker
    partial_run,         \* history: length of the trailing run of partial writes
    frames,              \* history: the chunks handed to vad.process, in order
    resampled_log,       \* history: all resampler outputs appended, concatenated
    rs_in,               \* SpecResample: the input of the last resample call
    rs_out,              \* SpecResample: its result
    iter,                \* history: what the current loop iteration has done
    vad,                 \* VadGate: [state, voiced_run, unvoiced_run, preroll, hangover]
    vad_log,             \* history: one entry per vad.process call, in order
    sink,                \* history: the segments passed to tsfn.call, in order
    js_buffer,           \* the last run of the threadsafe function's closure
    warned,              \* history: warnings printed in the current run of partial writes
    drained_log,         \* history: the samples popped by the worker(s), in order
    detached             \* running workers whose JoinHandle a later start() has overwritten

vars == << variant, channels, device_rate, actual_rates, mpc, start_result, stop_signal,
           capture_thread, stream, ring, current_sample_rate, consecutive_drops,
           should_terminate, has_data, waker_lock, consumer_lock, cb, wpc,
           input_sample_rate, resampler, raw_batch, i16_accumulator,
           pushed_total, dropped_total, drained_total, partial_run, frames,
           resampled_log, rs_in, rs_out, iter, vad, vad_log, sink, js_buffer,
           warned, drained_log, detached >>

configVars == << variant, channels, device_rate, actual_rates >>
hostVars == << mpc, start_result, stop_signal, capture_thread, stream >>
trackerVars == << consecutive_drops, should_terminate, partial_run >>
wakerVars == << has_data, waker_lock >>
workerVars == << wpc, input_sample_rate, resampler, raw_batch, i16_accumulator,
                 consumer_lock, drained_total, frames, resampled_log >>
pureVars == << rs_in, rs_out >>
gateVars == << iter, vad, vad_log, sink, js_buffer >>
histVars == << warned, drained_log, detached >>

(* ------------------------------------------------------------------ *)
(* Helpers                                                             *)
(* ------------------------------------------------------------------ *)
Min(a, b) == IF a <= b THEN a ELSE b
Max(a, b) == IF a >= b THEN a ELSE b

\* all sequences over S of length 0..n
SeqsUpTo(S, n) == UNION { [1..k -> S] : k \in 0..n }

RECURSIVE Concat(_)
Concat(ss) == IF ss = << >> THEN << >> ELSE Head(ss) \o Concat(Tail(ss))


(* ------------------------------------------------------------------ *)
(* RingChannel: ringbuf::HeapRb split into producer and consumer       *)
(* ------------------------------------------------------------------ *)
Vacant(r) == RingCap - Len(r)

\* Producer::push_slice: the number of samples written
PushSliceCount(r, data) == Min(Len(data), Vacant(r))

\* (a push that lands in front of the samples already queued)
PushSliceFront(r, data) == SubSeq(data, 1, PushSliceCount(r, data)) \o r

\* Producer::push_slice: the ring afterwards (the prefix that fits is appended)
PushSlice(r, data) == r \o SubSeq(data, 1, PushSliceCount(r, data))

\* Producer::try_push succeeds iff the ring is not full
TryPushOk(r) == Len(r) < RingCap

TryPush(r, s) == IF TryPushOk(r) THEN Append(r, s) ELSE r

\* (a pop that leaves the sample in the ring)
TryPopPeek(r) == r

\* Consumer::try_pop: the ring after a successful pop
TryPopRest(r) == Tail(r)

(* ------------------------------------------------------------------ *)
(* Downmix of an interleaved batch to the mono samples offered         *)
(* ------------------------------------------------------------------ *)
FrameCount(data, ch) == Len(data) \div ch

\* core_audio.rs stereo path: mono = (left + right) * 0.5
StereoMono(data) ==
    [i \in 1..FrameCount(data, 2) |-> (data[2 * i - 1] + data[2 * i]) \div 2]

\* first channel of every frame (core_audio.rs multi-channel path, microphone.rs)
FirstChannel(data, ch) ==
    [i \in 1..FrameCount(data, ch) |-> data[(i - 1) * ch + 1]]

MonoOf(v, ch, data) ==
    IF v = "macos" THEN data
    ELSE IF v = "core_audio"
         THEN (IF ch = 1 THEN data
               ELSE IF ch = 2 THEN StereoMono(data) ELSE FirstChannel(data, ch))
         ELSE FirstChannel(data, ch)

\* the interleaved batch of k frames the device delivers after `sent` mono samples
BatchOf(ch, sent, k) == [j \in 1..(k * ch) |-> Signal(sent * ch + j)]

Batches(ch, sent) == { BatchOf(ch, sent, k) : k \in 0..MaxBatchFrames }

(* ------------------------------------------------------------------ *)
(* The realtime callback                                               *)
(* ------------------------------------------------------------------ *)
CbIdle == [pc |-> "idle", data |-> << >>, mono |-> << >>, pos |-> 0, written |-> 0]

\* macos.rs: `if consecutive > 50`
TerminateNow(consecutive) == consecutive > HARD_THRESHOLD

\* (a warning on every partial write from the threshold on)
WarnNowRepeated(consecutive) == consecutive >= SOFT_THRESHOLD

\* macos.rs: `if consecutive == 25`
WarnNow(consecutive) == consecutive = SOFT_THRESHOLD

\* (a full write that also clears the terminate flag)
ProcMacosClearing(rate, data) ==
    /\ variant = "macos" /\ stream = "live" /\ cb.pc = "idle"
    /\ current_sample_rate' = rate
    /\ LET pushed == PushSliceCount(ring, data) IN
       /\ ring' = PushSlice(ring, data)
       /\ pushed_total' = pushed_total + Len(data)
       /\ dropped_total' = dropped_total + (Len(data) - pushed)
       /\ IF pushed < Len(data)
          THEN LET consecutive == consecutive_drops + 1 IN
               /\ consecutive_drops' = consecutive
               /\ partial_run' = partial_run + 1
               /\ warned' = warned + (IF WarnNow(consecutive) THEN 1 ELSE 0)
               /\ IF TerminateNow(consecutive)
                  THEN /\ should_terminate' = TRUE
                       /\ cb' = CbIdle
                  ELSE /\ UNCHANGED should_terminate
                       /\ cb' = [CbIdle EXCEPT !.pc = "waker_lock"]
          ELSE /\ consecutive_drops' = 0
               /\ partial_run' = 0
               /\ warned' = 0
               /\ should_terminate' = FALSE
               /\ cb' = [CbIdle EXCEPT !.pc = "waker_lock"]
    /\ UNCHANGED << configVars, hostVars, wakerVars, workerVars, pureVars, gateVars,
                    drained_log, detached >>

\* macos.rs proc + process_audio_data, up to the waker block
ProcMacos(rate, data) ==
    /\ variant = "macos" /\ stream = "live" /\ cb.pc = "idle"
    /\ current_sample_rate' = rate
    /\ LET pushed == PushSliceCount(ring, data) IN
       /\ ring' = PushSlice(ring, data)
       /\ pushed_total' = pushed_total + Len(data)
       /\ dropped_total' = dropped_total + (Len(data) - pushed)
       /\ IF pushed < Len(data)
          THEN LET consecutive == consecutive_drops + 1 IN
               /\ consecutive_drops' = consecutive
               /\ partial_run' = partial_run + 1
               /\ warned' = warned + (IF WarnNow(consecutive) THEN 1 ELSE 0)
               /\ IF TerminateNow(consecutive)
                  THEN /\ should_terminate' = TRUE
                       /\ cb' = CbIdle
                  ELSE /\ UNCHANGED should_terminate
                       /\ cb' = [CbIdle EXCEPT !.pc = "waker_lock"]
          ELSE /\ consecutive_drops' = 0
               /\ partial_run' = 0
               /\ warned' = 0
               /\ UNCHANGED should_terminate
               /\ cb' = [CbIdle EXCEPT !.pc = "waker_lock"]
    /\ UNCHANGED << configVars, hostVars, wakerVars, workerVars, pureVars, gateVars,
                    drained_log, detached >>

\* macos.rs: `ctx.waker_state.lock().unwrap()`
WakerLock ==
    /\ cb.pc = "waker_lock" /\ waker_lock = "none"
    /\ waker_lock' = "callback"
    /\ cb' = [cb EXCEPT !.pc = "waker_held"]
    /\ UNCHANGED << configVars, hostVars, ring, current_sample_rate, trackerVars,
                    has_data, workerVars, pushed_total, dropped_total, pureVars, gateVars, histVars >>

\* macos.rs: the body of the waker block and the release of the guard
WakerUnlock ==
    /\ cb.pc = "waker_held" /\ waker_lock = "callback"
    /\ has_data' = TRUE
    /\ waker_lock' = "none"
    /\ cb' = CbIdle
    /\ UNCHANGED << configVars, hostVars, ring, current_sample_rate, trackerVars,
                    workerVars, pushed_total, dropped_total, pureVars, gateVars, histVars >>

\* core_audio.rs proc, channel_count == 1: process_audio_data (push_slice only)
ProcCoreMono(rate, data) ==
    /\ variant = "core_audio" /\ channels = 1
    /\ stream = "live" /\ cb.pc = "idle"
    /\ current_sample_rate' = rate
    /\ LET pushed == PushSliceCount(ring, data) IN
       /\ ring' = PushSlice(ring, data)
       /\ pushed_total' = pushed_total + Len(data)
       /\ dropped_total' = dropped_total + (Len(data) - pushed)
       /\ partial_run' = IF pushed < Len(data) THEN partial_run + 1 ELSE 0
    /\ UNCHANGED << configVars, hostVars, consecutive_drops, should_terminate,
                    wakerVars, cb, workerVars, pureVars, gateVars, histVars >>

\* core_audio.rs proc (stereo / multi-channel) and the cpal input callbacks:
\* entry; the per-frame try_push loop follows in TryPushStep
ProcLoopEnter(rate, data) ==
    /\ \/ variant = "core_audio" /\ channels > 1
       \/ variant = "mic"
    /\ stream = "live" /\ cb.pc = "idle"
    /\ current_sample_rate' = IF variant = "core_audio" THEN rate
                              ELSE current_sample_rate
    /\ LET mono == MonoOf(variant, channels, data) IN
       IF mono = << >>
       THEN /\ cb' = CbIdle
            /\ partial_run' = 0
       ELSE /\ cb' = [pc |-> "loop", data |-> data, mono |-> mono, pos |-> 1,
                       written |-> 0]
            /\ UNCHANGED partial_run
    /\ UNCHANGED << configVars, hostVars, ring, consecutive_drops, should_terminate,
                    wakerVars, workerVars, pushed_total, dropped_total, pureVars, gateVars, histVars >>

\* one pass of `for ... { let _ = producer.try_push(sample); }`
TryPushStep ==
    /\ cb.pc = "loop"
    /\ LET s == cb.mono[cb.pos]
           ok == TryPushOk(ring)
           written == cb.written + (IF ok THEN 1 ELSE 0)
       IN
       /\ ring' = TryPush(ring, s)
       /\ pushed_total' = pushed_total + 1
       /\ dropped_total' = dropped_total + (IF ok THEN 0 ELSE 1)
       /\ IF cb.pos = Len(cb.mono)
          THEN /\ cb' = CbIdle
               /\ partial_run' = IF written < Len(cb.mono) THEN partial_run + 1 ELSE 0
          ELSE /\ cb' = [cb EXCEPT !.pos = cb.pos + 1, !.written = written]
               /\ UNCHANGED partial_run
    /\ UNCHANGED << configVars, hostVars, current_sample_rate, consecutive_drops,
                    should_terminate, wakerVars, workerVars, pureVars, gateVars, histVars >>


(* ------------------------------------------------------------------ *)
(* Resampler (resampler.rs)                                            *)
(* ------------------------------------------------------------------ *)
Abs(x) == IF x < 0 THEN -x ELSE x

\* division truncating toward zero, as the float-to-integer cast `as i16` does
TruncDiv(a, b) == IF a >= 0 THEN a \div b ELSE -((-a) \div b)

CeilDiv(a, b) == (a + b - 1) \div b

\* f32::clamp(-1.0, 1.0) on a numerator over Den
Clamp(x) == IF x < -Den THEN -Den ELSE IF x > Den THEN Den ELSE x

\* `(sample.clamp(-1.0, 1.0) * 32767.0) as i16`
ToI16(x) == TruncDiv(Clamp(x) * I16_SCALE, Den)

\* (a tolerance that includes a difference of 1 Hz)
IsPassthroughRateLoose(rate) == Abs(rate - OUTPUT_RATE) <= 1

\* Resampler::new: `(input_rate - 16000.0).abs() < 1.0`
IsPassthroughRate(rate) == Abs(rate - OUTPUT_RATE) < 1

\* Resampler::new, when no platform call fails
NewResampler(rate) ==
    IF IsPassthroughRate(rate)
    THEN [converter |-> FALSE, input_rate |-> rate,
          capacity |-> PASSTHROUGH_CAPACITY, produced |-> 0]
    ELSE [converter |-> TRUE, input_rate |-> rate,
          capacity |-> CONVERT_CAPACITY, produced |-> 0]

NoResampler == [converter |-> FALSE, input_rate |-> 0, capacity |-> 0, produced |-> 0]

\* (a loop that stops one sample early)
PassthroughOutShort(input) == [i \in 1..(Len(input) - 1) |-> ToI16(input[i])]

\* Resampler::resample, passthrough branch: one output sample per input sample
PassthroughOut(input) == [i \in 1..Len(input) |-> ToI16(input[i])]

\* Resampler::resample, convert branch: the estimate of the output frames
ExpectedOutFrames(res, frame_count) ==
    CeilDiv(frame_count * OUTPUT_RATE, res.input_rate) + CAPACITY_MARGIN

\* (an output buffer reallocated to fit every call)
FittedCapacity(res, frame_count) == ExpectedOutFrames(res, frame_count) * 2

\* Resampler::resample, convert branch: the capacity of output_buffer at the convert call
GrownCapacity(res, frame_count) ==
    IF res.capacity < ExpectedOutFrames(res, frame_count)
    THEN ExpectedOutFrames(res, frame_count) * 2
    ELSE res.capacity

\* AudioConverter::convert_to_buf_from_buf returning k frames: the converter is a
\* platform object with its own state; its k output samples are taken distinct
\* from all it returned before
ConverterOut(res, k) == [j \in 1..k |-> ConvBase + res.produced + j]

\* The outcomes of one resample call: [ok, out, res].  In convert mode the platform
\* converter decides the output length (up to the capacity) or fails; the input
\* buffer and the reallocation may fail before it.
ResampleOutcomes(res, input) ==
    IF ~res.converter
    THEN { [ok |-> TRUE, out |-> PassthroughOut(input), res |-> res] }
    ELSE LET grown == [res EXCEPT !.capacity = GrownCapacity(res, Len(input))] IN
         { [ok |-> FALSE, out |-> << >>, res |-> res],
           [ok |-> FALSE, out |-> << >>, res |-> grown] }
         \cup { [ok |-> TRUE, out |-> ConverterOut(res, k),
                 res |-> [grown EXCEPT !.produced = res.produced + k]] :
                  k \in 0..Min(MaxConvOut, grown.capacity) }

(* ------------------------------------------------------------------ *)
(* VadGate (vad.rs is not part of the source tree: modelled from the   *)
(* specification, section 4.4).  The scoring function is left open by  *)
(* the specification; here a frame is voiced when one of its samples   *)
(* reaches an amplitude threshold (an all-zero frame is unvoiced).     *)
(* ------------------------------------------------------------------ *)
VadThreshold == 1000

IsVoiced(frame) == \E i \in 1..Len(frame) : Abs(frame[i]) >= VadThreshold

\* onset and offset hysteresis, as in the specification's scenario D
VadK == 3
VadM == 5

VadInit == [state |-> "Silence", voiced_run |-> 0, unvoiced_run |-> 0,
            preroll |-> << >>, hangover |-> << >>]

\* (an onset one frame early)
OnsetReachedEarly(run) == run >= VadK - 1

\* "after K consecutive voiced frames while in Silence"
OnsetReached(run) == run >= VadK

\* "after M consecutive unvoiced frames while in Speech"
OffsetReached(run) == run >= VadM

\* (a continuation that forgets the unvoiced frames held back)
ResumeFragmentShort(v, frame) == << frame >>

\* "Continuation": the frame is emitted at once, after the unvoiced frames held back
\* since the last emitted fragment
ResumeFragment(v, frame) == << v.hangover \o frame >>

\* VadGate::process(frame): [vad, out], the state afterwards and the segments returned
VadProcess(v, frame) ==
    IF v.state = "Silence"
    THEN IF IsVoiced(frame)
         THEN IF OnsetReached(v.voiced_run + 1)
              THEN [vad |-> [VadInit EXCEPT !.state = "Speech"],
                    out |-> << v.preroll \o frame >>]
              ELSE [vad |-> [v EXCEPT !.voiced_run = @ + 1, !.preroll = @ \o frame],
                    out |-> << >>]
         ELSE [vad |-> VadInit, out |-> << >>]
    ELSE IF IsVoiced(frame)
         THEN [vad |-> [v EXCEPT !.unvoiced_run = 0, !.hangover = << >>],
               out |-> ResumeFragment(v, frame)]
         ELSE IF OffsetReached(v.unvoiced_run + 1)
              THEN [vad |-> VadInit, out |-> << v.hangover \o frame >>]
              ELSE [vad |-> [v EXCEPT !.unvoiced_run = @ + 1, !.hangover = @ \o frame],
                    out |-> << >>]

(* ------------------------------------------------------------------ *)
(* The sink: the threadsafe function created in start()                *)
(* ------------------------------------------------------------------ *)
NonEmptySegment(seg) == seg # << >>

\* (a queue that hands the newest segments over first)
EmitSegmentsFront(snk, segs) == SelectSeq(segs, NonEmptySegment) \o snk

\* `for speech in speech_chunks { if !speech.is_empty() { tsfn.call(speech, NonBlocking) } }`
EmitSegments(snk, segs) == snk \o SelectSeq(segs, NonEmptySegment)

\* (a call that returns only once the JS thread has taken everything queued before)
TsfnCallWaits(snk, buf) == buf.delivered = Len(snk)

\* tsfn.call(.., ThreadsafeFunctionCallMode::NonBlocking) on the unbounded queue of
\* create_threadsafe_function(0, ..): it returns at once, whatever is still queued
TsfnCallReturns(snk, buf) == TRUE

\* i16::to_le_bytes: the two's complement of the sample, low byte first
LeLow(sample) == (IF sample < 0 THEN sample + 65536 ELSE sample) % 256
LeHigh(sample) == (IF sample < 0 THEN sample + 65536 ELSE sample) \div 256

\* (the bytes of each sample swapped)
ToBeBytes(vec) ==
    [j \in 1..(2 * Len(vec)) |->
        IF j % 2 = 1 THEN LeHigh(vec[(j + 1) \div 2]) ELSE LeLow(vec[j \div 2])]

\* the closure of the threadsafe function: pcm_bytes.extend_from_slice(&sample.to_le_bytes())
ToLeBytes(vec) ==
    [j \in 1..(2 * Len(vec)) |->
        IF j % 2 = 1 THEN LeLow(vec[(j + 1) \div 2]) ELSE LeHigh(vec[j \div 2])]

NoJsBuffer == [vec |-> << >>, pcm_bytes |-> << >>, delivered |-> 0]

\* the JS thread runs the closure on the next queued segment and calls back with
\* vec![pcm_bytes]
TsfnRun ==
    /\ js_buffer.delivered < Len(sink)
    /\ LET vec == sink[js_buffer.delivered + 1] IN
       js_buffer' = [vec |-> vec, pcm_bytes |-> ToLeBytes(vec),
                     delivered |-> js_buffer.delivered + 1]
    /\ UNCHANGED << configVars, hostVars, ring, current_sample_rate, trackerVars,
                    wakerVars, cb, workerVars, pushed_total, dropped_total, pureVars,
                    iter, vad, vad_log, sink, histVars >>

(* ------------------------------------------------------------------ *)
(* The worker thread (lib.rs, the closure passed to thread::spawn)     *)
(* ------------------------------------------------------------------ *)
LoopPcs == {"check", "drain", "resample", "frame", "yield", "sleep"}

\* (a worker that takes the rate from the shared cell when it starts running)
WorkerInitLiveRate ==
    /\ wpc = "init"
    /\ \/ /\ resampler' = NewResampler(current_sample_rate)
          /\ wpc' = "check"
       \/ /\ wpc' = "panicked"
          /\ UNCHANGED resampler
    /\ vad' = VadInit
    /\ UNCHANGED << configVars, hostVars, ring, current_sample_rate, trackerVars,
                    wakerVars, cb, input_sample_rate, raw_batch, i16_accumulator,
                    consumer_lock, drained_total, frames, resampled_log,
                    pushed_total, dropped_total, pureVars, iter, vad_log, sink,
                    js_buffer, histVars >>

\* `Resampler::new(input_sample_rate).expect(...)`: the platform calls of
\* Resampler::new succeed or fail; on failure the thread panics
WorkerInit ==
    /\ wpc = "init"
    /\ \/ /\ resampler' = NewResampler(input_sample_rate)
          /\ wpc' = "check"
       \/ /\ wpc' = "panicked"
          /\ UNCHANGED resampler
    /\ vad' = VadInit
    /\ UNCHANGED << configVars, hostVars, ring, current_sample_rate, trackerVars,
                    wakerVars, cb, input_sample_rate, raw_batch, i16_accumulator,
                    consumer_lock, drained_total, frames, resampled_log,
                    pushed_total, dropped_total, pureVars, iter, vad_log, sink,
                    js_buffer, histVars >>

\* (a worker that never looks at the flag)
StopObservedNever(flag) == FALSE

\* `if *stop_signal.lock().unwrap() { break; }`
StopObserved(flag) == flag

\* top of the loop; the mic worker then takes the consumer mutex for the drain block
WorkerCheck ==
    /\ wpc = "check"
    /\ IF StopObserved(stop_signal)
       THEN /\ wpc' = "exited"
            /\ UNCHANGED consumer_lock
       ELSE /\ wpc' = "drain"
            /\ consumer_lock' = IF variant = "mic" THEN "worker" ELSE consumer_lock
    /\ variant = "mic" => consumer_lock = "none"
    /\ iter' = [iter EXCEPT !.frames = 0]
    /\ UNCHANGED << configVars, hostVars, ring, current_sample_rate, trackerVars,
                    wakerVars, cb, input_sample_rate, resampler, raw_batch,
                    i16_accumulator, drained_total, frames, resampled_log,
                    pushed_total, dropped_total, pureVars, vad, vad_log, sink,
                    js_buffer, histVars >>

\* (the limit tested one sample late)
DrainFullOver(batch) == Len(batch) > DrainCap

\* `if raw_batch.len() >= 4800 { break; }`
DrainFull(batch) == Len(batch) >= DrainCap

\* (a drain loop that goes on for as long as try_pop returns a sample)
DrainStepUncapped ==
    /\ wpc = "drain"
    /\ IF ring # << >>
       THEN LET s == Head(ring)
                batch == Append(raw_batch, s)
            IN
            /\ ring' = TryPopRest(ring)
            /\ raw_batch' = batch
            /\ drained_total' = drained_total + 1
            /\ drained_log' = Append(drained_log, s)
            /\ wpc' = "drain"
            /\ UNCHANGED consumer_lock
       ELSE /\ wpc' = "resample"
            /\ consumer_lock' = "none"
            /\ UNCHANGED << ring, raw_batch, drained_total, drained_log >>
    /\ UNCHANGED << configVars, hostVars, current_sample_rate, trackerVars,
                    wakerVars, cb, input_sample_rate, resampler, i16_accumulator,
                    frames, resampled_log, pushed_total, dropped_total, pureVars,
                    gateVars, warned, detached >>

\* one pass of `while let Some(s) = consumer.try_pop() { ... }`
DrainStep ==
    /\ wpc = "drain"
    /\ IF ring # << >>
       THEN LET s == Head(ring)
                batch == Append(raw_batch, s)
            IN
            /\ ring' = TryPopRest(ring)
            /\ raw_batch' = batch
            /\ drained_total' = drained_total + 1
            /\ drained_log' = Append(drained_log, s)
            /\ IF DrainFull(batch)
               THEN wpc' = "resample" /\ consumer_lock' = "none"
               ELSE wpc' = "drain" /\ UNCHANGED consumer_lock
       ELSE /\ wpc' = "resample"
            /\ consumer_lock' = "none"
            /\ UNCHANGED << ring, raw_batch, drained_total, drained_log >>
    /\ UNCHANGED << configVars, hostVars, current_sample_rate, trackerVars,
                    wakerVars, cb, input_sample_rate, resampler, i16_accumulator,
                    frames, resampled_log, pushed_total, dropped_total, pureVars,
                    gateVars, warned, detached >>

\* `if !raw_batch.is_empty() { if let Ok(r) = resampler.resample(..) { extend } clear }`
\* (a failed call that throws the accumulated samples away)
ExtendOrReset(acc, o) == IF o.ok THEN acc \o o.out ELSE << >>

\* `if let Ok(resampled) = resampler.resample(&raw_batch) { i16_accumulator.extend(resampled); }`
ExtendOnOk(acc, o) == IF o.ok THEN acc \o o.out ELSE acc

ResampleStep ==
    /\ wpc = "resample"
    /\ IF raw_batch # << >>
       THEN \E o \in ResampleOutcomes(resampler, raw_batch) :
              /\ resampler' = o.res
              /\ i16_accumulator' = ExtendOnOk(i16_accumulator, o)
              /\ resampled_log' = IF o.ok THEN resampled_log \o o.out
                                  ELSE resampled_log
              /\ raw_batch' = << >>
              /\ iter' = [iter EXCEPT !.resample = IF o.ok THEN "ok" ELSE "err"]
       ELSE /\ iter' = [iter EXCEPT !.resample = "none"]
            /\ UNCHANGED << resampler, i16_accumulator, resampled_log, raw_batch >>
    /\ wpc' = "frame"
    /\ UNCHANGED << configVars, hostVars, ring, current_sample_rate, trackerVars,
                    wakerVars, cb, input_sample_rate, consumer_lock, drained_total,
                    frames, pushed_total, dropped_total, pureVars, vad, vad_log,
                    sink, js_buffer, histVars >>

\* (the loop condition off by one)
HasChunkStrict(acc) == Len(acc) > CHUNK_SAMPLES

\* `while i16_accumulator.len() >= CHUNK_SAMPLES`
HasChunk(acc) == Len(acc) >= CHUNK_SAMPLES

\* `i16_accumulator.drain(0..CHUNK_SAMPLES).collect()`: the chunk and what stays
ChunkOf(acc) == SubSeq(acc, 1, CHUNK_SAMPLES)
RestOfOverlap(acc) == SubSeq(acc, CHUNK_SAMPLES, Len(acc))
RestOf(acc) == SubSeq(acc, CHUNK_SAMPLES + 1, Len(acc))

\* one pass of the framing loop, or its exit
FrameStep ==
    /\ wpc = "frame"
    /\ IF HasChunk(i16_accumulator)
       THEN LET chunk == ChunkOf(i16_accumulator)
                r == VadProcess(vad, chunk)
            IN
            /\ frames' = Append(frames, chunk)
            /\ i16_accumulator' = RestOf(i16_accumulator)
            /\ vad' = r.vad
            /\ vad_log' = Append(vad_log, [frame |-> chunk, voiced |-> IsVoiced(chunk),
                                           state |-> r.vad.state, out |-> r.out])
            /\ (EmitSegments(sink, r.out) # sink) => TsfnCallReturns(sink, js_buffer)
            /\ sink' = EmitSegments(sink, r.out)
            /\ iter' = [iter EXCEPT !.frames = @ + 1]
            /\ wpc' = "frame"
       ELSE /\ wpc' = "yield"
            /\ UNCHANGED << frames, i16_accumulator, vad, vad_log, sink, iter >>
    /\ UNCHANGED << configVars, hostVars, ring, current_sample_rate, trackerVars,
                    wakerVars, cb, input_sample_rate, resampler, raw_batch,
                    consumer_lock, drained_total, resampled_log, pushed_total,
                    dropped_total, pureVars, js_buffer, histVars >>

\* `if i16_accumulator.len() < CHUNK_SAMPLES`
ShouldSleep(acc) == Len(acc) < CHUNK_SAMPLES

\* the end of the loop body: sleep or go straight to the next iteration
YieldStep ==
    /\ wpc = "yield"
    /\ wpc' = IF ShouldSleep(i16_accumulator) THEN "sleep" ELSE "check"
    /\ UNCHANGED << configVars, hostVars, ring, current_sample_rate, trackerVars,
                    wakerVars, cb, input_sample_rate, resampler, raw_batch,
                    i16_accumulator, consumer_lock, drained_total, frames,
                    resampled_log, pushed_total, dropped_total, pureVars, gateVars, histVars >>

\* `thread::sleep(Duration::from_millis(1))` returns
SleepStep ==
    /\ wpc = "sleep"
    /\ wpc' = "check"
    /\ UNCHANGED << configVars, hostVars, ring, current_sample_rate, trackerVars,
                    wakerVars, cb, input_sample_rate, resampler, raw_batch,
                    i16_accumulator, consumer_lock, drained_total, frames,
                    resampled_log, pushed_total, dropped_total, pureVars, gateVars, histVars >>

WorkerNext ==
    \/ WorkerInit \/ WorkerCheck \/ DrainStep \/ ResampleStep
    \/ FrameStep \/ YieldStep \/ SleepStep

(* ------------------------------------------------------------------ *)
(* The host thread: start() and stop() (lib.rs)                        *)
(* ------------------------------------------------------------------ *)
\* start() returns Err before anything runs: the threadsafe function cannot be
\* created, SpeakerInput::new fails (system audio) or play() fails (microphone)
StartFail ==
    /\ mpc = "idle"
    /\ mpc' = "start_failed"
    /\ start_result' = "Err"
    /\ \/ UNCHANGED stop_signal
       \/ stop_signal' = FALSE
    /\ UNCHANGED << configVars, capture_thread, stream, ring, current_sample_rate,
                    trackerVars, wakerVars, cb, workerVars, pushed_total,
                    dropped_total, pureVars, gateVars, histVars >>

\* start() up to the running capture: `*stop_signal = false`, then
\* input.stream() (the tap's device is started) or input_ref.play()
StartStream ==
    /\ mpc = "idle"
    /\ mpc' = "spawning"
    /\ stop_signal' = FALSE
    /\ stream' = "live"
    /\ current_sample_rate' = device_rate
    /\ UNCHANGED << configVars, start_result, capture_thread, ring, trackerVars,
                    wakerVars, cb, workerVars, pushed_total, dropped_total, pureVars, gateVars, histVars >>

\* the rate start() hands to the worker: stream.sample_rate() reads the atomic
\* cell (system audio); MicrophoneStream::sample_rate() is the configured rate
RateRead == IF variant = "mic" THEN device_rate ELSE current_sample_rate

\* start(): read the rate, take the consumer, spawn the worker, return Ok(())
StartSpawn ==
    /\ mpc = "spawning"
    /\ mpc' = "running"
    /\ input_sample_rate' = RateRead
    /\ capture_thread' = "Some"
    /\ wpc' = "init"
    /\ start_result' = "Ok"
    /\ UNCHANGED << configVars, stop_signal, stream, ring, current_sample_rate,
                    trackerVars, wakerVars, cb, resampler, raw_batch,
                    i16_accumulator, consumer_lock, drained_total, frames,
                    resampled_log, pushed_total, dropped_total, pureVars, gateVars, histVars >>

\* stop(): `*self.stop_signal.lock().unwrap() = true`
StopSet ==
    /\ mpc \in {"idle", "start_failed", "running"}
    /\ mpc' = "stop_join"
    /\ stop_signal' = TRUE
    /\ UNCHANGED << configVars, start_result, capture_thread, stream, ring,
                    current_sample_rate, trackerVars, wakerVars, cb, workerVars,
                    pushed_total, dropped_total, pureVars, gateVars, histVars >>

\* (a stop() that does not wait for the worker)
JoinReturnsAlways(w) == TRUE

\* JoinHandle::join returns once the thread has finished (normally or by panic)
JoinReturns(w) == w \in {"exited", "panicked"}

\* stop(): `if let Some(handle) = self.capture_thread.take() { let _ = handle.join(); }`
StopJoin ==
    /\ mpc = "stop_join"
    /\ capture_thread = "Some" => JoinReturns(wpc)
    /\ capture_thread' = "None"
    /\ mpc' = "stop_release"
    /\ UNCHANGED << configVars, start_result, stop_signal, stream, ring,
                    current_sample_rate, trackerVars, wakerVars, cb, workerVars,
                    pushed_total, dropped_total, pureVars, gateVars, histVars >>

\* stop(): `self.stream = None` (system audio) or `input.pause()` (microphone);
\* stopping the device waits for a callback in progress
StopRelease ==
    /\ mpc = "stop_release"
    /\ cb.pc = "idle"
    /\ mpc' = "stopped"
    /\ stream' = IF stream = "live" \/ variant = "mic" THEN "released" ELSE stream
    /\ UNCHANGED << configVars, start_result, stop_signal, capture_thread, ring,
                    current_sample_rate, trackerVars, wakerVars, cb, workerVars,
                    pushed_total, dropped_total, pureVars, gateVars, histVars >>

HostNext == StartFail \/ StartStream \/ StartSpawn \/ StopSet \/ StopJoin \/ StopRelease

(* ------------------------------------------------------------------ *)
(* Specifications                                                      *)
(* ------------------------------------------------------------------ *)
Configs ==
    { c \in [variant : Variants, channels : 1..3] :
        /\ c.variant = "macos" => c.channels = 1
        /\ c.variant = "mic" => c.channels = 2 }

InitState(c, rate, actual) ==
    /\ variant = c.variant
    /\ channels = c.channels
    /\ device_rate = rate
    /\ actual_rates = actual
    /\ mpc = "idle"
    /\ start_result = "none"
    /\ stop_signal = FALSE
    /\ capture_thread = "None"
    /\ stream = "none"
    /\ ring = << >>
    /\ current_sample_rate = rate
    /\ consecutive_drops = 0
    /\ should_terminate = FALSE
    /\ has_data = FALSE
    /\ waker_lock = "none"
    /\ consumer_lock = "none"
    /\ cb = CbIdle
    /\ wpc = "none"
    /\ input_sample_rate = 0
    /\ resampler = NoResampler
    /\ raw_batch = << >>
    /\ i16_accumulator = << >>
    /\ pushed_total = 0
    /\ dropped_total = 0
    /\ drained_total = 0
    /\ partial_run = 0
    /\ frames = << >>
    /\ resampled_log = << >>
    /\ rs_in = << >>
    /\ rs_out = [called |-> FALSE, ok |-> FALSE, out |-> << >>]
    /\ iter = [resample |-> "none", frames |-> 0]
    /\ vad = VadInit
    /\ vad_log = << >>
    /\ sink = << >>
    /\ js_buffer = NoJsBuffer
    /\ warned = 0
    /\ drained_log = << >>
    /\ detached = 0

\* a device that keeps reporting its nominal rate
Init == \E c \in Configs, rate \in InputRates : InitState(c, rate, {rate})

\* the hardware delivers a batch: at most MaxOffered mono samples in a run
Offer(rate, data) ==
    /\ pushed_total + FrameCount(data, channels) <= MaxOffered
    /\ \/ ProcMacos(rate, data)
       \/ ProcCoreMono(rate, data)
       \/ ProcLoopEnter(rate, data)

Deliver ==
    /\ stream = "live" /\ cb.pc = "idle"
    /\ \E rate \in actual_rates, data \in Batches(channels, pushed_total) : Offer(rate, data)

CallbackNext == Deliver \/ WakerLock \/ WakerUnlock \/ TryPushStep

Next == CallbackNext \/ WorkerNext \/ HostNext \/ TsfnRun

Spec == Init /\ [][Next]_vars


(* Sustained backpressure on the macos tap: the run is bounded by the samples   *)
(* accepted into the ring and by the samples dropped, so that the consecutive-  *)
(* drop counter can pass both thresholds while the worker is slow.              *)
MaxDroppedOverflow == HARD_THRESHOLD + 2

InitOverflow ==
    \E rate \in InputRates : InitState([variant |-> "macos", channels |-> 1], rate, {rate})

OfferOverflow(rate, data) ==
    /\ (pushed_total - dropped_total) + PushSliceCount(ring, data) <= MaxWrittenOverflow
    /\ dropped_total + (Len(data) - PushSliceCount(ring, data)) <= MaxDroppedOverflow
    /\ ProcMacos(rate, data)

DeliverOverflow ==
    /\ stream = "live" /\ cb.pc = "idle"
    /\ \E rate \in actual_rates, data \in Batches(channels, pushed_total) : OfferOverflow(rate, data)

NextOverflow ==
    DeliverOverflow \/ WakerLock \/ WakerUnlock \/ WorkerNext \/ HostNext \/ TsfnRun

SpecOverflow == InitOverflow /\ [][NextOverflow]_vars


(* The worker is scheduled, and join returns once the thread has finished. *)
FairSpec == Spec /\ WF_vars(WorkerNext) /\ WF_vars(StopJoin)

(* A device whose reported rate changes while the stream runs: the callback *)
(* stores either rate into the shared cell at every invocation.             *)
InitRate ==
    \E c \in {[variant |-> "macos", channels |-> 1],
               [variant |-> "core_audio", channels |-> 2]},
       rate \in InputRates : InitState(c, rate, InputRates)

SpecRate == InitRate /\ [][Next]_vars

(* start() called again on a running capture object. Neither start() tests    *)
(* capture_thread or the stop flag before spawning.                            *)

\* the thread behind `self.capture_thread` has not finished
WorkerRunning == wpc \in LoopPcs \cup {"init"}

\* a second start() that returns Ok(()): `*stop_signal = false` (it is false already),
\* system audio: `self.input.take()` and `self.device_id.take()` are None, so a new
\* SpeakerInput, stream, ring and Ctx are made, and `self.stream = Some(stream)` drops
\* the stream of the first start (the drop waits for a callback in progress);
\* microphone: `input_ref.play()` on the same stream, `get_consumer()` clones the Arc
\* of the same consumer. `self.capture_thread = Some(thread::spawn(..))` then drops
\* the JoinHandle of the first worker, which keeps running. (A second start() that
\* returns Err leaves every field as it was.)
StartAgain ==
    /\ mpc = "running"
    /\ detached < MaxDetached
    /\ variant # "mic" => cb.pc = "idle"
    /\ stop_signal' = FALSE
    /\ stream' = "live"
    /\ IF variant = "mic"
       THEN /\ consumer_lock' = IF consumer_lock = "worker" THEN "detached"
                                                            ELSE consumer_lock
            /\ UNCHANGED << ring, current_sample_rate, consecutive_drops,
                            should_terminate, has_data >>
       ELSE /\ ring' = << >>
            /\ current_sample_rate' = device_rate
            /\ consecutive_drops' = 0
            /\ should_terminate' = FALSE
            /\ has_data' = FALSE
            /\ UNCHANGED consumer_lock
    /\ input_sample_rate' = device_rate
    /\ detached' = IF WorkerRunning THEN detached + 1 ELSE detached
    /\ capture_thread' = "Some"
    /\ wpc' = "init"
    /\ resampler' = NoResampler
    /\ raw_batch' = << >>
    /\ i16_accumulator' = << >>
    /\ iter' = [resample |-> "none", frames |-> 0]
    /\ start_result' = "Ok"
    /\ UNCHANGED << configVars, mpc, partial_run, waker_lock, cb, drained_total,
                    frames, resampled_log, pushed_total, dropped_total, pureVars,
                    vad, vad_log, sink, js_buffer, warned, drained_log >>

\* the drain block of a detached microphone worker: it locks the consumer it shares
\* with the new worker and pops up to the drain limit
DetachedDrain ==
    /\ detached > 0
    /\ variant = "mic"
    /\ consumer_lock \in {"none", "detached"}
    /\ ring # << >> \/ consumer_lock = "detached"
    /\ ring' = SubSeq(ring, Min(Len(ring), DrainCap) + 1, Len(ring))
    /\ consumer_lock' = "none"
    /\ UNCHANGED << configVars, hostVars, current_sample_rate, trackerVars,
                    wakerVars, cb, wpc, input_sample_rate, resampler, raw_batch,
                    i16_accumulator, drained_total, frames, resampled_log,
                    pushed_total, dropped_total, pureVars, gateVars, histVars >>

\* a detached worker sees the flag set at the top of its loop and breaks
DetachedExit ==
    /\ detached > 0
    /\ consumer_lock # "detached"
    /\ StopObserved(stop_signal)
    /\ detached' = detached - 1
    /\ UNCHANGED << configVars, hostVars, ring, current_sample_rate, trackerVars,
                    wakerVars, cb, workerVars, pushed_total, dropped_total,
                    pureVars, gateVars, warned, drained_log >>

NextRestart == Next \/ StartAgain \/ DetachedDrain \/ DetachedExit

\* one system-audio tap and the microphone, on a 48 kHz device
InitRestart ==
    \E c \in {[variant |-> "macos", channels |-> 1],
               [variant |-> "mic", channels |-> 2]} :
        InitState(c, 48000, {48000})

SpecRestart == InitRestart /\ [][NextRestart]_vars

(* The Resampler alone: one Resampler is constructed for a rate and then       *)
(* called with inputs over PureValues.                                         *)
PureRates == {8000, 15999, 16000, 16001, 44100, 48000}

InitResample == InitState([variant |-> "macos", channels |-> 1], 48000, {48000})

\* Resampler::new(input_rate) returning Ok
ResamplerNew(rate) ==
    /\ resampler = NoResampler
    /\ resampler' = NewResampler(rate)
    /\ UNCHANGED << configVars, hostVars, ring, current_sample_rate, trackerVars,
                    wakerVars, cb, wpc, input_sample_rate, raw_batch,
                    i16_accumulator, consumer_lock, drained_total, frames,
                    resampled_log, pushed_total, dropped_total, pureVars, gateVars, histVars >>

\* resampler.resample(input) on the constructed Resampler
ResampleCall(input) ==
    /\ resampler # NoResampler
    /\ \E o \in ResampleOutcomes(resampler, input) :
          /\ rs_in' = input
          /\ rs_out' = [called |-> TRUE, ok |-> o.ok, out |-> o.out]
          /\ resampler' = o.res
    /\ UNCHANGED << configVars, hostVars, ring, current_sample_rate, trackerVars,
                    wakerVars, cb, wpc, input_sample_rate, raw_batch,
                    i16_accumulator, consumer_lock, drained_total, frames,
                    resampled_log, pushed_total, dropped_total, gateVars, histVars >>

PureInputs == SeqsUpTo(PureValues, MaxPureLen)

\* silent batches as long as the worker drains them: around the initial capacity of
\* the output buffer and at the drain limit
LongInputs ==
    { [i \in 1..n |-> 0] : n \in {CONVERT_CAPACITY, CONVERT_CAPACITY + 1, DRAIN_LIMIT} }

\* a run of SpecResample: construct, then one call
NextResample ==
    \/ \E rate \in PureRates : ResamplerNew(rate)
    \/ /\ ~rs_out.called
       /\ \E input \in PureInputs \cup LongInputs : ResampleCall(input)

SpecResample == InitResample /\ [][NextResample]_vars

(* The Resampler over a sequence of calls: short batches and batches around the *)
(* initial capacity and at the drain limit, in any order.                       *)
ShortInputs == SeqsUpTo({0, Den}, 1)

NextResampleSeq ==
    \/ \E rate \in PureRates : ResamplerNew(rate)
    \/ /\ resampler.produced < MaxProduced
       /\ \E input \in ShortInputs \cup LongInputs : ResampleCall(input)

SpecResampleSeq == InitResample /\ [][NextResampleSeq]_vars


(* The threadsafe function alone: a segment over the corners of the i16 range *)
(* is queued and the JS thread runs the closure on it.                         *)
I16Values == {-32768, -32767, -256, -255, -1, 0, 1, 255, 256, 32767}

SinkInputs == SeqsUpTo(I16Values, MaxPureLen)

\* tsfn.call(seg, ThreadsafeFunctionCallMode::NonBlocking)
TsfnCall(seg) ==
    /\ sink' = Append(sink, seg)
    /\ UNCHANGED << configVars, hostVars, ring, current_sample_rate, trackerVars,
                    wakerVars, cb, workerVars, pushed_total, dropped_total, pureVars,
                    iter, vad, vad_log, js_buffer, histVars >>

\* a run of SpecSink: one segment is queued and delivered
NextSink ==
    \/ /\ sink = << >>
       /\ \E seg \in SinkInputs : TsfnCall(seg)
    \/ TsfnRun

SpecSink == InitResample /\ [][NextSink]_vars

(* The VadGate alone: frames of silence and frames above the threshold are fed *)
(* in any order, as the framing loop feeds them.                               *)
VadFrames(n) ==
    { [i \in 1..CHUNK_SAMPLES |-> 0], [i \in 1..CHUNK_SAMPLES |-> VadThreshold + n] }

\* `let speech_chunks = vad.process(chunk);`
VadFeed(frame) ==
    /\ Len(vad_log) < MaxVadFrames
    /\ LET r == VadProcess(vad, frame) IN
       /\ vad' = r.vad
       /\ vad_log' = Append(vad_log, [frame |-> frame, voiced |-> IsVoiced(frame),
                                      state |-> r.vad.state, out |-> r.out])
    /\ UNCHANGED << configVars, hostVars, ring, current_sample_rate, trackerVars,
                    wakerVars, cb, workerVars, pushed_total, dropped_total, pureVars,
                    iter, sink, js_buffer, histVars >>

NextVad == \E frame \in VadFrames(Len(vad_log) + 1) : VadFeed(frame)

SpecVad == InitResample /\ [][NextVad]_vars

(* ------------------------------------------------------------------ *)
(* Properties                                                          *)
(* ------------------------------------------------------------------ *)

\* C1: conservation across the ring.  Every sample offered to the ring is either
\* dropped, still in the ring, or was drained exactly once:
\* pushed_total = drained_total + dropped_total + samples in the ring, in every
\* state under every interleaving of callback and worker.
RingConservation ==
    pushed_total = drained_total + dropped_total + Len(ring)

\* C1 witness: samples were dropped, samples were drained, and the ring is empty again
RingConservationWitness ==
    /\ dropped_total > 0
    /\ drained_total > 0
    /\ ring = << >>
    /\ cb.pc = "idle"

\* C2: on every path that writes a batch into the ring the consecutive-partial-write
\* counter follows the writes: whenever the callback is not running, the counter
\* equals the length of the trailing run of partial (or zero) writes.
CounterTracksPartialRun ==
    cb.pc = "idle" => consecutive_drops = partial_run

\* C3: the terminate flag is set by the push that brings the run of consecutive
\* partial writes to the hard threshold: after HARD_THRESHOLD consecutive partial
\* writes should_terminate is true.
TerminateAtHardThreshold ==
    (variant = "macos" /\ partial_run >= HARD_THRESHOLD) => should_terminate

\* C4: once the callback has set the terminate flag, the worker leaves its loop at
\* its next check: a worker that passes the top of its loop while should_terminate
\* is set exits.
TerminateObservedByWorker ==
    [][(should_terminate /\ wpc = "check" /\ wpc' # "check") => wpc' = "exited"]_vars

\* C5: stop() releases (drops or pauses) the stream only after the worker it started
\* has finished: no state has the stream released while the worker is being set up
\* or is inside its loop.
ReleaseAfterWorkerExit ==
    stream = "released" => wpc \notin (LoopPcs \cup {"init"})

\* C5 witness: a worker that ran and framed audio has exited and the stream is released
ReleaseAfterWorkerExitWitness ==
    /\ stream = "released"
    /\ wpc = "exited"
    /\ frames # << >>

\* C6: cooperative cancellation is live.  A worker at the top of its loop with the
\* stop flag set starts no new iteration; once stop() waits in join the worker
\* finishes and join returns, whatever the callback does.
StopIsLive ==
    /\ [][(stop_signal /\ wpc = "check") => wpc' \in {"check", "exited"}]_vars
    /\ (mpc = "stop_join") ~> (mpc \in {"stop_release", "stopped"})
    /\ (mpc = "stop_join" /\ wpc \in LoopPcs) ~> (wpc = "exited")

\* C6 witness: stop() has returned after joining a worker that left its loop
StopIsLiveWitness ==
    /\ mpc = "stopped"
    /\ wpc = "exited"
    /\ capture_thread = "None"
    /\ drained_total > 0

\* C7: a Resampler that cannot be constructed makes start() return an error:
\* start() never returns Ok while the construction then fails in the worker.
StartFailsSynchronously ==
    ~(start_result = "Ok" /\ wpc = "panicked")

\* C8: whenever the worker is outside its framing loop (in particular at the end of
\* the framing step of every iteration) the accumulator holds fewer than
\* CHUNK_SAMPLES samples.
AccumulatorBound ==
    wpc # "frame" => Len(i16_accumulator) < CHUNK_SAMPLES

\* C8 witness: the framing step of an iteration that cut a frame has ended with
\* samples left over
AccumulatorBoundWitness ==
    /\ wpc = "yield"
    /\ frames # << >>
    /\ i16_accumulator # << >>

\* C9: every chunk handed to the VAD has exactly CHUNK_SAMPLES samples, and the chunks
\* handed over so far followed by the accumulator are exactly the resampler outputs
\* appended so far: same order, nothing skipped, nothing duplicated.
FramerExact ==
    /\ \A i \in 1..Len(frames) : Len(frames[i]) = CHUNK_SAMPLES
    /\ Concat(frames) \o i16_accumulator = resampled_log

\* C9 witness: two chunks were cut and samples remain in the accumulator
FramerExactWitness ==
    /\ Len(frames) >= 2
    /\ i16_accumulator # << >>

\* C10: a passthrough resample call returns Ok with exactly one output sample per
\* input sample.
PassthroughLength ==
    (rs_out.called /\ ~resampler.converter) =>
        (rs_out.ok /\ Len(rs_out.out) = Len(rs_in))

\* C10 witness: a passthrough Resampler was called with a batch of several samples
PassthroughLengthWitness ==
    /\ rs_out.called
    /\ ~resampler.converter
    /\ Len(rs_in) >= 2

\* nearest integer to a / b (b > 0), halves away from zero, as f32::round
RoundDiv(a, b) ==
    IF a >= 0 THEN (2 * a + b) \div (2 * b) ELSE -((2 * (-a) + b) \div (2 * b))

\* C11: in passthrough mode every output sample is the clamped input scaled by 32767
\* and rounded to the nearest integer (not truncated toward zero), and lies in
\* [-32767, 32767].
PassthroughRounds ==
    (rs_out.called /\ ~resampler.converter /\ rs_out.ok) =>
        \A i \in 1..Len(rs_out.out) :
            /\ i <= Len(rs_in)
            /\ rs_out.out[i] = RoundDiv(Clamp(rs_in[i]) * I16_SCALE, Den)
            /\ rs_out.out[i] >= -I16_SCALE
            /\ rs_out.out[i] <= I16_SCALE

\* C12: a failing resample call is not fatal.  The step of the loop in which
\* resample returned Err leaves the accumulator as it was and clears the raw batch
\* (nothing is retried or carried over), and the worker goes on through the rest of
\* the iteration to the next one instead of leaving the loop.
ResampleErrNonFatal ==
    [][/\ (wpc = "resample" /\ wpc' # "resample" /\ iter'.resample = "err") =>
              /\ i16_accumulator' = i16_accumulator
              /\ raw_batch' = << >>
              /\ wpc' = "frame"
       /\ (iter.resample = "err" /\ wpc \in {"frame", "yield", "sleep"}) =>
              wpc' \in LoopPcs]_vars

\* C12 witness: after an iteration whose resample call failed with samples in the
\* accumulator, the worker has drained a fresh batch and is about to resample it
ResampleErrNonFatalWitness ==
    /\ iter.resample = "err"
    /\ wpc = "resample"
    /\ raw_batch # << >>
    /\ i16_accumulator # << >>

DecodeLe(bytes) ==
    [i \in 1..(Len(bytes) \div 2) |->
        LET u == bytes[2 * i - 1] + 256 * bytes[2 * i]
        IN IF u >= 32768 THEN u - 65536 ELSE u]

\* C14: a segment of n samples is delivered as one buffer of exactly 2n bytes, sample
\* i in bytes 2i (low) and 2i+1 (high), counted from 0; decoding the buffer as
\* little-endian signed 16-bit values gives the segment back.
SinkSerialization ==
    js_buffer.delivered > 0 =>
        /\ Len(js_buffer.pcm_bytes) = 2 * Len(js_buffer.vec)
        /\ \A i \in 1..Len(js_buffer.vec) :
              /\ js_buffer.pcm_bytes[2 * i - 1] = js_buffer.vec[i] % 256
              /\ js_buffer.pcm_bytes[2 * i] =
                    ((js_buffer.vec[i] - (js_buffer.vec[i] % 256)) \div 256) % 256
        /\ \A j \in 1..Len(js_buffer.pcm_bytes) : js_buffer.pcm_bytes[j] \in 0..255
        /\ DecodeLe(js_buffer.pcm_bytes) = js_buffer.vec

\* C14 witness: a segment with a negative sample and a sample above 255 was delivered
SinkSerializationWitness ==
    /\ js_buffer.delivered > 0
    /\ Len(js_buffer.vec) >= 2
    /\ \E i \in 1..Len(js_buffer.vec) : js_buffer.vec[i] < 0
    /\ \E i \in 1..Len(js_buffer.vec) : js_buffer.vec[i] > 255

\* C15: the realtime callback never acquires a general-purpose lock: in no state does
\* the callback wait for or hold a mutex.
CallbackLockFree ==
    /\ cb.pc \notin {"waker_lock", "waker_held"}
    /\ waker_lock # "callback"

\* C18: at the end of each iteration the worker sleeps if and only if the iteration
\* completed no frame; an iteration that completed a frame goes straight on.
SleepIffNoFrame ==
    [][(wpc = "yield" /\ wpc' # "yield") =>
          ((wpc' = "sleep") <=> (iter.frames = 0))]_vars

\* C16: what a callback invocation drops is the unwritten tail of its batch: once a
\* sample of the batch was dropped, no later sample of the same batch is accepted
\* into the ring, whatever the worker drains in between.
DropsAreTail ==
    [][(cb.pc = "loop" /\ cb.written < cb.pos - 1) => Len(ring') <= Len(ring)]_vars

\* C19: the mono samples offered to the ring are the downmix of the batch: one per
\* frame; for 2 channels the average of the frame's two channels, for 1 channel the
\* sample itself, otherwise the frame's first channel; in every capture variant.
DownmixBeforeRing ==
    cb.pc = "loop" =>
        /\ Len(cb.mono) = FrameCount(cb.data, channels)
        /\ \A i \in 1..Len(cb.mono) :
              cb.mono[i] = IF channels = 2
                           THEN (cb.data[2 * i - 1] + cb.data[2 * i]) \div 2
                           ELSE cb.data[(i - 1) * channels + 1]

\* C17: in convert mode, at every resample call the output buffer handed to the converter has
\* capacity at least max(ceil(input_len * 16000 / input_rate) + margin, input_len).
CapacityCoversInput ==
    (rs_out.called /\ rs_out.ok /\ resampler.converter) =>
        resampler.capacity >=
            Max(CeilDiv(Len(rs_in) * OUTPUT_RATE, resampler.input_rate) + CAPACITY_MARGIN,
                Len(rs_in))

\* the number of consecutive frames classified b that end with the i-th frame
RECURSIVE RunEnding(_, _, _)
RunEnding(log, i, b) ==
    IF i = 0 \/ log[i].voiced # b THEN 0 ELSE 1 + RunEnding(log, i - 1, b)

\* the VadGate state before the i-th frame
StateBefore(log, i) == IF i = 1 THEN "Silence" ELSE log[i - 1].state

\* C20: over the frame sequence, starting in Silence, the VadGate goes from Silence
\* to Speech exactly on the K-th consecutive voiced frame and from Speech to Silence
\* exactly on the M-th consecutive unvoiced frame, and changes state in no other
\* step; a frame processed in Silence that completes no onset yields no output.
VadHysteresis ==
    \A i \in 1..Len(vad_log) :
        LET before == StateBefore(vad_log, i)
            after == vad_log[i].state
        IN
        /\ after \in {"Silence", "Speech"}
        /\ (before = "Silence") =>
              ((after = "Speech") <=> (RunEnding(vad_log, i, TRUE) = VadK))
        /\ (before = "Speech") =>
              ((after = "Silence") <=> (RunEnding(vad_log, i, FALSE) = VadM))
        /\ (before = "Silence" /\ after = "Silence") => vad_log[i].out = << >>

\* C20 witness: an utterance began, ended after the offset hysteresis, and a second
\* onset has completed
VadHysteresisWitness ==
    /\ vad.state = "Speech"
    /\ \E i \in 2..Len(vad_log) :
          /\ vad_log[i - 1].state = "Speech"
          /\ vad_log[i].state = "Silence"

\* a is b with some elements left out (same relative order)
RECURSIVE IsSubseq(_, _)
IsSubseq(a, b) ==
    IF a = << >> THEN TRUE
    ELSE IF b = << >> THEN FALSE
    ELSE IF Head(a) = Head(b) THEN IsSubseq(Tail(a), Tail(b))
    ELSE IsSubseq(a, Tail(b))

\* the mono samples the callback has offered to the ring so far, in order
OfferedMono == MonoOf(variant, channels, BatchOf(channels, 0, pushed_total))

\* C28: FIFO across the bridge.  Under any interleaving of pushes and drains the
\* samples the worker has drained, over all iterations, are a subsequence of the mono
\* samples the callback offered, in the same order: none reordered, none twice.
FifoAcrossBridge ==
    /\ IsSubseq(drained_log, OfferedMono)
    /\ \A i, j \in 1..Len(drained_log) : i < j => drained_log[i] < drained_log[j]

\* C28 witness: the worker drained over several iterations around a dropped sample
FifoAcrossBridgeWitness ==
    /\ Len(drained_log) >= 3
    /\ dropped_total > 0
    /\ drained_log # SubSeq(OfferedMono, 1, Len(drained_log))

\* C24: bounded drain.  The batch drained in an iteration never holds more than the
\* drain limit, also while the callback keeps pushing; the drain does not wait: with
\* the ring empty it ends at once with the batch as it is, and an empty batch leads
\* to no resample call.
BoundedDrain ==
    /\ [](Len(raw_batch) <= DrainCap)
    /\ [][(wpc = "drain" /\ ring = << >> /\ wpc' # "drain") =>
              (wpc' = "resample" /\ raw_batch' = raw_batch)]_vars
    /\ [][(wpc = "resample" /\ raw_batch = << >> /\ wpc' # "resample") =>
              /\ wpc' = "frame"
              /\ iter'.resample = "none"
              /\ UNCHANGED << resampler, i16_accumulator, resampled_log >>]_vars

\* C24 witness: the drain stopped at the limit with samples still in the ring
BoundedDrainWitness ==
    /\ wpc = "resample"
    /\ Len(raw_batch) = DrainCap
    /\ ring # << >>

\* C26: the soft-threshold warning is printed by the push with which the run of
\* consecutive partial writes reaches 25 and not again in that run: in a run shorter
\* than 25 none has been printed, from 25 on exactly one.
SoftWarningOnce ==
    variant = "macos" =>
        warned = IF partial_run >= SOFT_THRESHOLD THEN 1 ELSE 0

\* C26 witness: the run of partial writes has gone past the soft threshold
SoftWarningOnceWitness ==
    /\ variant = "macos"
    /\ partial_run > SOFT_THRESHOLD + 1
    /\ warned = 1

\* C29: the terminate flag is sticky: once set, no later push clears it, not even a
\* full write that resets the consecutive-drop counter.
TerminateSticky ==
    [][should_terminate => should_terminate']_vars

\* C29 witness: after the flag was set a full write has reset the counter
TerminateStickyWitness ==
    /\ should_terminate
    /\ consecutive_drops = 0
    /\ partial_run = 0
    /\ stream = "live"

\* C23: over any sequence of convert-mode calls on one Resampler the capacity of the
\* output buffer never decreases: it changes only in a call whose estimate exceeds
\* it, and then to a strictly larger value.
CapacityMonotone ==
    [][(resampler.converter /\ resampler'.converter) =>
          /\ resampler'.capacity >= resampler.capacity
          /\ (resampler'.capacity # resampler.capacity) =>
                /\ resampler.capacity <
                      CeilDiv(Len(rs_in') * OUTPUT_RATE, resampler.input_rate)
                          + CAPACITY_MARGIN
                /\ resampler'.capacity > resampler.capacity]_vars

\* C23 witness: after the buffer had grown, a call with a short batch was made and the
\* capacity is still the grown one
CapacityMonotoneWitness ==
    /\ resampler.converter
    /\ rs_out.called /\ rs_out.ok
    /\ Len(rs_in) <= 1
    /\ resampler.capacity > CONVERT_CAPACITY

\* C27: the mode is fixed at construction: a Resampler has no converter (passthrough)
\* if and only if its input rate is within 1 Hz of 16000, exclusive, and no call
\* changes the mode.
ModeFixed ==
    /\ [](resampler # NoResampler =>
            (~resampler.converter <=>
                (resampler.input_rate > OUTPUT_RATE - 1 /\
                 resampler.input_rate < OUTPUT_RATE + 1)))
    /\ [][resampler # NoResampler =>
            (resampler'.converter = resampler.converter /\
             resampler'.input_rate = resampler.input_rate)]_vars

\* C27 witness: a Resampler 1 Hz off the output rate has converted a batch
ModeFixedWitness ==
    /\ resampler.input_rate = OUTPUT_RATE + 1
    /\ resampler.converter
    /\ rs_out.called /\ rs_out.ok
    /\ resampler.produced > 0

\* the samples of the fragments returned by the calls i..j, in call order
FragmentsOf(log, i, j) ==
    Concat(Concat([m \in 1..(j - i + 1) |-> log[i + m - 1].out]))

\* the samples of the input frames i..j
FramesOf(log, i, j) == Concat([m \in 1..(j - i + 1) |-> log[i + m - 1].frame])

\* the i-th call completed an onset and the j-th call the offset of that utterance
IsUtterance(log, i, j) ==
    /\ i < j
    /\ StateBefore(log, i) = "Silence"
    /\ \A m \in i..(j - 1) : log[m].state = "Speech"
    /\ log[j].state = "Silence"

WorkerNotBackPressured ==
    wpc \in LoopPcs => ENABLED WorkerNext

\* C22 witness: the worker has handed over another segment and gone on to drain the
\* ring while two segments are still waiting for the JS thread
WorkerNotBackPressuredWitness ==
    /\ Len(sink) - js_buffer.delivered >= 2
    /\ wpc = "drain"
    /\ ring # << >>

\* C25: the input rate is read once, in start(): the Resampler the worker builds has
\* the rate start() read, and neither that value nor the Resampler's rate changes
\* while the worker lives, whatever the callback stores into the shared cell.
RateReadOnce ==
    /\ [](wpc \in LoopPcs => resampler.input_rate = input_sample_rate)
    /\ [][(wpc \in (LoopPcs \cup {"init"})) =>
              (input_sample_rate' = input_sample_rate)]_vars
    /\ [][(wpc \in LoopPcs /\ wpc' \in LoopPcs) =>
              (resampler'.input_rate = resampler.input_rate)]_vars

\* C25 witness: the worker is resampling at the rate read in start() while the cell
\* holds another rate
RateReadOnceWitness ==
    /\ wpc \in LoopPcs
    /\ drained_total > 0
    /\ resampler.input_rate = input_sample_rate
    /\ current_sample_rate # input_sample_rate

\* C30: for every sequence of start() and stop() calls, start() twice included, at
\* most one worker of the object is running at any time, and once stop() has returned
\* no worker of the object is still running
SingleWorker ==
    /\ detached + (IF WorkerRunning THEN 1 ELSE 0) <= 1
    /\ mpc = "stopped" => (detached = 0 /\ ~WorkerRunning)

\* C31: every worker iteration terminates whatever the callback pushes: a pass of the
\* drain loop adds one sample to a batch that stays below the limit while the loop
\* goes on, a pass of the framing loop takes CHUNK_SAMPLES samples off the
\* accumulator, no other thread touches the batch, the accumulator or the worker's
\* position, and a worker inside an iteration always comes back to the stop check.
IterationTerminates ==
    /\ [][(DrainStep /\ wpc' = "drain") =>
              /\ Len(raw_batch') = Len(raw_batch) + 1
              /\ Len(raw_batch') < DrainCap]_vars
    /\ [][(FrameStep /\ wpc' = "frame") =>
              (Len(i16_accumulator') = Len(i16_accumulator) - CHUNK_SAMPLES)]_vars
    /\ [][(wpc \in LoopPcs /\ ~WorkerNext) =>
              UNCHANGED << wpc, raw_batch, i16_accumulator >>]_vars
    /\ (wpc \in (LoopPcs \ {"check"})) ~> (wpc = "check")

\* C31 witness: the worker is back at the stop check after an iteration that cut a
\* frame, having drained at least a full batch, with samples waiting in the ring
IterationTerminatesWitness ==
    /\ wpc = "check"
    /\ iter.frames > 0
    /\ drained_total >= DrainCap
    /\ ring # << >>

====
